---- MODULE Spec2Model ----
(***************************************************************************)
(* The exam-lockdown hook useFullScreenExamSecurity, in its three variants: *)
(*   "A"  src/unnamed/part_000 lines 1-144   (always-on hook)               *)
(*   "B"  src/unnamed/part_000 lines 145-289 (dev-tools check, startExam    *)
(*        only arms the counter)                                            *)
(*   "C"  src/unnamed/part_001               (startExam requests fullscreen)*)
(* The model follows React's execution of the hook: a state update          *)
(* (setViolations) is stored at once, the component re-renders later        *)
(* (Render), and the effect of that render runs later still (RunEffect).    *)
(* Registered handlers keep the handleViolation closure of the render whose *)
(* effect registered them.                                                  *)
(***************************************************************************)
EXTENDS Integers, FiniteSets, Sequences, TLC

VARIABLES
    variant,               \* which of the three hooks is mounted
    maxViolations,         \* hook parameter
    isSecurityEnabled,     \* prop at the latest render
    isFinalSubmission,     \* prop at the latest render
    mounted,               \* the component is mounted
    violations,            \* React state: the latest value given to setViolations
    rendered,              \* the value of `violations` at the latest render
    effectPending,         \* the latest render's effect has not run yet
    hasCleanup,            \* the effect that ran last returned a cleanup function
    listeners,             \* event types with a registered listener
    capturedViolations,    \* `violations` as captured by the registered handlers
    intervals,             \* live setInterval timers: [id, captured]
    devToolsCheckInterval, \* the ref: an interval id, 0 for null
    isHandlingViolation,   \* the ref: reentrancy latch
    latchTimers,           \* pending setTimeout(..., 500) latch releases
    fullscreen,            \* document.fullscreenElement is set
    pendingStart,          \* requestFullscreen() promises awaited by startExam
    pendingReenter,        \* requestFullscreen() promises awaited by reEnterFullScreen
    warnings,              \* calls of onWarning
    lastMessage,           \* kind of the message of the latest onWarning call
    finishCalls,           \* calls of onFinishExam
    returned,              \* what the operation completing in the latest step
                           \* returned or settled with ("none": nothing completed)
    defaultPrevented,      \* the latest step dispatched an event and its handler
                           \* called preventDefault
    debounced,             \* the latest step called handleViolation and the latch
                           \* made it return at once
    securityWasEnabled     \* history: isSecurityEnabled was true at some render

vars == <<variant, maxViolations, isSecurityEnabled, isFinalSubmission, mounted,
          violations, rendered, effectPending, hasCleanup, listeners,
          capturedViolations, intervals, devToolsCheckInterval,
          isHandlingViolation, latchTimers, fullscreen, pendingStart,
          pendingReenter, warnings, lastMessage, finishCalls, returned,
          defaultPrevented, debounced, securityWasEnabled>>

(* ------------------------------ bounds --------------------------------- *)
MaxMaxViolations == 2
MaxWarnings == 2
MaxFinishCalls == 2
MaxPending == 1

(* ------------------------- program constants --------------------------- *)
UNSTARTED == -1
threshold == 160

Variants == {"A", "B", "C"}
GapValues == {0, threshold, threshold + 1}
\* Key events: a plain key, and the chords the variants tell apart.
KeyEvent(ctrl, alt, shift, key) ==
    [ctrlKey |-> ctrl, altKey |-> alt, shiftKey |-> shift, key |-> key]

KeyEvents ==
    { KeyEvent(FALSE, FALSE, FALSE, "t"), KeyEvent(TRUE, FALSE, FALSE, "t"),
      KeyEvent(TRUE, FALSE, TRUE, "T"), KeyEvent(TRUE, FALSE, FALSE, "p"),
      KeyEvent(TRUE, FALSE, FALSE, "Tab"), KeyEvent(FALSE, TRUE, FALSE, "Tab"),
      KeyEvent(TRUE, TRUE, FALSE, "Tab"), KeyEvent(FALSE, FALSE, FALSE, "F12"),
      KeyEvent(TRUE, FALSE, TRUE, "C"), KeyEvent(TRUE, FALSE, FALSE, "c") }

SuppressedTypes(v) ==
    IF v = "B"
    THEN {"contextmenu", "dragstart", "selectstart", "copy", "paste", "cut"}
    ELSE {"contextmenu", "copy", "paste", "cut"}

ListenerTypes(v) ==
    {"visibilitychange", "blur", "fullscreenchange", "keydown"} \cup SuppressedTypes(v)

(* The hook's mutable state and the host callbacks' log, as one record, so *)
(* that handlers compose.                                                   *)
Hook ==
    [violations |-> violations,
     isHandlingViolation |-> isHandlingViolation,
     latchTimers |-> latchTimers,
     warnings |-> warnings,
     lastMessage |-> lastMessage,
     finishCalls |-> finishCalls,
     debounced |-> FALSE]

Commit(h) ==
    /\ h.warnings <= MaxWarnings
    /\ h.finishCalls <= MaxFinishCalls
    /\ violations' = h.violations
    /\ isHandlingViolation' = h.isHandlingViolation
    /\ latchTimers' = h.latchTimers
    /\ warnings' = h.warnings
    /\ lastMessage' = h.lastMessage
    /\ finishCalls' = h.finishCalls
    /\ debounced' = h.debounced

(* ---------------------------- handleViolation -------------------------- *)
Message(newCount) ==
    IF newCount = maxViolations THEN "FINAL_WARNING" ELSE "WARNING"

onWarning(h, message) ==
    [h EXCEPT !.warnings = @ + 1, !.lastMessage = message]

onFinishExam(h) ==
    [h EXCEPT !.finishCalls = @ + 1]

Outcome(h, newCount) ==
    IF newCount <= maxViolations
    THEN onWarning(h, Message(newCount))
    ELSE onFinishExam(h)

\* A faulty handleViolation: the latch guard is missing.
handleViolationNoLatch(h, count) ==
    LET newCount == count + 1
        latched == [h EXCEPT !.isHandlingViolation = TRUE, !.violations = newCount]
        called == Outcome(latched, newCount)
    IN  [called EXCEPT !.latchTimers = @ + 1]

handleViolation(h, count) ==
    IF h.isHandlingViolation
    THEN [h EXCEPT !.debounced = TRUE]
    ELSE LET newCount == count + 1
             latched == [h EXCEPT !.isHandlingViolation = TRUE,
                                  !.violations = newCount]
             called == Outcome(latched, newCount)
         IN  [called EXCEPT !.latchTimers = @ + 1]

(* ----------------------------- event handlers -------------------------- *)
handleVisibilityChange(h, count, hidden) ==
    IF hidden THEN handleViolation(h, count) ELSE h

\* A faulty handleBlur: document.fullscreenElement is not tested.
handleBlurAlways(h, count) ==
    handleViolation(h, count)

handleBlur(h, count) ==
    IF fullscreen THEN handleViolation(h, count) ELSE h

handleFullScreenChange(h, count, fs) ==
    IF ~fs THEN handleViolation(h, count) ELSE h

ToLowerCase(k) ==
    CASE k = "T" -> "t"
      [] k = "C" -> "c"
      [] k = "Tab" -> "tab"
      [] k = "F12" -> "f12"
      [] OTHER -> k

\* The chords of each variant, as the list of `if` conditions of its handleKeyDown.
KeyDownChords(v, e) ==
    CASE v = "A" ->
           << e.ctrlKey /\ e.key \in {"t", "n", "w"},
              e.ctrlKey /\ e.key = "Tab",
              e.altKey /\ e.key = "Tab" >>
      [] v = "B" ->
           << e.ctrlKey /\ ToLowerCase(e.key) \in {"t", "n", "w", "p", "s", "o", "u"},
              (e.ctrlKey \/ e.altKey) /\ e.key = "Tab",
              e.key = "F12"
                \/ (e.ctrlKey /\ e.shiftKey /\ ToLowerCase(e.key) \in {"i", "j", "c"}) >>
      [] OTHER ->
           << (e.ctrlKey /\ e.key \in {"t", "n", "w", "Tab"})
                \/ (e.altKey /\ e.key = "Tab") >>

RECURSIVE RunChords(_, _, _)
RunChords(h, count, chords) ==
    IF chords = << >>
    THEN h
    ELSE RunChords(IF Head(chords) THEN handleViolation(h, count) ELSE h,
                   count, Tail(chords))

handleKeyDown(h, count, e) ==
    RunChords(h, count, KeyDownChords(variant, e))

KeyDownPrevented(e) ==
    \E i \in DOMAIN KeyDownChords(variant, e) : KeyDownChords(variant, e)[i]

\* A faulty checkDevTools: a gap equal to the threshold counts.
checkDevToolsInclusive(h, count, gapW, gapH) ==
    IF gapW >= threshold \/ gapH >= threshold
    THEN IF ~h.isHandlingViolation THEN handleViolation(h, count) ELSE h
    ELSE h

checkDevTools(h, count, gapW, gapH) ==
    IF gapW > threshold \/ gapH > threshold
    THEN IF ~h.isHandlingViolation THEN handleViolation(h, count) ELSE h
    ELSE h

(* ------------------------------ the effect ----------------------------- *)
\* A faulty early return: isSecurityEnabled is not tested.
EffectSkipsIgnoresSecurity(v, sec, count, final) ==
    IF v = "A"
    THEN count = UNSTARTED
    ELSE count = UNSTARTED \/ final

\* A faulty early return: isFinalSubmission is not tested.
EffectSkipsIgnoresFinal(v, sec, count, final) ==
    IF v = "A"
    THEN count = UNSTARTED
    ELSE ~sec \/ count = UNSTARTED

\* A faulty early return: violations === -1 is not tested.
EffectSkipsIgnoresUnstarted(v, sec, count, final) ==
    IF v = "A"
    THEN FALSE
    ELSE ~sec \/ final

\* The effect's early return: nothing is subscribed when this holds.
EffectSkips(v, sec, count, final) ==
    IF v = "A"
    THEN count = UNSTARTED
    ELSE ~sec \/ count = UNSTARTED \/ final

\* clearInterval(devToolsCheckInterval.current), guarded by the ref being set.
ClearRefInterval(ivs, ref) ==
    IF ref # 0 THEN {iv \in ivs : iv.id # ref} ELSE ivs

\* The id setInterval returns: one that names no live timer and is not the
\* stale value the ref still holds.
FreshId(ivs, ref) ==
    CHOOSE i \in 1..(Cardinality(ivs) + 2) :
        /\ i # ref
        /\ \A iv \in ivs : iv.id # i

\* A faulty cleanup: the listeners are removed, the interval is left running.
CleanupKeepsInterval(v, ls, ivs, ref) ==
    << ls \ ListenerTypes(v), ivs >>

\* The cleanup function the effect returned, applied to <<listeners, intervals>>.
Cleanup(v, ls, ivs, ref) ==
    << ls \ ListenerTypes(v),
       IF v = "B" THEN ClearRefInterval(ivs, ref) ELSE ivs >>

\* The effect body after the cleanup of the previous effect:
\* <<listeners, intervals, ref, captured count, returned a cleanup>>.
EffectBody(v, ls, ivs, ref, captured) ==
    IF EffectSkips(v, isSecurityEnabled, rendered, isFinalSubmission)
    THEN << ls,
            IF v = "B" THEN ClearRefInterval(ivs, ref) ELSE ivs,
            ref, captured, FALSE >>
    ELSE IF v = "B"
         THEN LET id == FreshId(ivs, ref)
              IN  << ls \cup ListenerTypes(v),
                     ivs \cup {[id |-> id, captured |-> rendered]},
                     id, rendered, TRUE >>
         ELSE << ls \cup ListenerTypes(v), ivs, ref, rendered, TRUE >>

(* -------------------------------- Init --------------------------------- *)
\* The state after mounting: the first render saw violations = -1 and its
\* effect returned early.
Init ==
    /\ variant \in Variants
    /\ maxViolations \in 1..MaxMaxViolations
    /\ isSecurityEnabled \in (IF variant = "A" THEN {TRUE} ELSE BOOLEAN)
    /\ isFinalSubmission \in (IF variant = "A" THEN {FALSE} ELSE BOOLEAN)
    /\ mounted = TRUE
    /\ violations = UNSTARTED
    /\ rendered = UNSTARTED
    /\ effectPending = FALSE
    /\ hasCleanup = FALSE
    /\ listeners = {}
    /\ capturedViolations = UNSTARTED
    /\ intervals = {}
    /\ devToolsCheckInterval = 0
    /\ isHandlingViolation = FALSE
    /\ latchTimers = 0
    /\ fullscreen = FALSE
    /\ pendingStart = 0
    /\ pendingReenter = 0
    /\ warnings = 0
    /\ lastMessage = "NONE"
    /\ finishCalls = 0
    /\ returned = "none"
    /\ defaultPrevented = FALSE
    /\ debounced = FALSE
    /\ securityWasEnabled = isSecurityEnabled

params == <<variant, maxViolations>>
props == <<isSecurityEnabled, isFinalSubmission, securityWasEnabled>>
react == <<rendered, effectPending>>
subscription == <<hasCleanup, listeners, capturedViolations, intervals,
                  devToolsCheckInterval>>
hook == <<violations, isHandlingViolation, latchTimers, warnings, lastMessage,
          finishCalls>>
callbacks == <<warnings, lastMessage, finishCalls>>
requests == <<pendingStart, pendingReenter>>

\* A step in which no operation completes and no event is dispatched.
Silent ==
    /\ returned' = "none"
    /\ defaultPrevented' = FALSE

\* A step that leaves the hook's refs, state and callbacks alone.
HookUnchanged ==
    /\ UNCHANGED hook
    /\ debounced' = FALSE

(* ------------------------------- React --------------------------------- *)
\* A re-render caused by a state update: the hook body runs again and its
\* closures capture the current state. The effect is scheduled because its
\* dependency `violations` changed.
Render ==
    /\ mounted
    /\ ~effectPending
    /\ violations # rendered
    /\ rendered' = violations
    /\ effectPending' = TRUE
    /\ Silent
    /\ HookUnchanged
    /\ UNCHANGED <<params, props, mounted, subscription, fullscreen, requests>>

\* A re-render by the host with changed props (variants B and C have them).
SetProps(sec, final) ==
    /\ mounted
    /\ ~effectPending
    /\ variant # "A"
    /\ <<sec, final>> # <<isSecurityEnabled, isFinalSubmission>>
    /\ isSecurityEnabled' = sec
    /\ isFinalSubmission' = final
    /\ securityWasEnabled' = (securityWasEnabled \/ sec)
    /\ rendered' = violations
    /\ effectPending' = TRUE
    /\ Silent
    /\ HookUnchanged
    /\ UNCHANGED <<params, mounted, subscription, fullscreen, requests>>

\* The pending effect runs: the previous effect's cleanup, then the body.
RunEffect ==
    /\ mounted
    /\ effectPending
    /\ LET cleaned == IF hasCleanup
                      THEN Cleanup(variant, listeners, intervals, devToolsCheckInterval)
                      ELSE <<listeners, intervals>>
           body == EffectBody(variant, cleaned[1], cleaned[2],
                              devToolsCheckInterval, capturedViolations)
       IN  /\ listeners' = body[1]
           /\ intervals' = body[2]
           /\ devToolsCheckInterval' = body[3]
           /\ capturedViolations' = body[4]
           /\ hasCleanup' = body[5]
    /\ effectPending' = FALSE
    /\ Silent
    /\ HookUnchanged
    /\ UNCHANGED <<params, props, mounted, rendered, fullscreen, requests>>

\* The host unmounts the component: the last effect's cleanup runs.
Unmount ==
    /\ mounted
    /\ mounted' = FALSE
    /\ LET cleaned == IF hasCleanup
                      THEN Cleanup(variant, listeners, intervals, devToolsCheckInterval)
                      ELSE <<listeners, intervals>>
       IN  /\ listeners' = cleaned[1]
           /\ intervals' = cleaned[2]
    /\ hasCleanup' = FALSE
    /\ effectPending' = FALSE
    /\ Silent
    /\ HookUnchanged
    /\ UNCHANGED <<params, props, rendered, capturedViolations,
                   devToolsCheckInterval, fullscreen, requests>>

(* --------------------------- host operations --------------------------- *)
\* setViolations(value): React drops the update of an unmounted component.
setViolations(h, value) ==
    IF mounted THEN [h EXCEPT !.violations = value] ELSE h

\* Whether startExam awaits document.documentElement.requestFullscreen().
StartRequestsFullscreen(v, sec) ==
    CASE v = "A" -> TRUE
      [] v = "B" -> FALSE
      [] OTHER -> sec

\* What startExam returns when it completes without a fullscreen request.
StartReturn(v) ==
    IF v = "B" THEN "start:undefined" ELSE "start:true"

\* startExam's body when it makes no fullscreen request.
StartNow(h) ==
    setViolations(h, 0)

startExam ==
    /\ mounted
    /\ IF StartRequestsFullscreen(variant, isSecurityEnabled)
       THEN /\ pendingStart + pendingReenter < MaxPending
            /\ pendingStart' = pendingStart + 1
            /\ returned' = "none"
            /\ HookUnchanged
       ELSE /\ Commit(StartNow(Hook))
            /\ returned' = StartReturn(variant)
            /\ UNCHANGED pendingStart
    /\ defaultPrevented' = FALSE
    /\ UNCHANGED <<params, props, mounted, react, subscription, fullscreen,
                   pendingReenter>>

\* A faulty reEnterFullScreen: document.fullscreenElement is not tested.
ReEnterIgnoresFullscreen(v, sec, fs) ==
    IF v = "A" THEN TRUE ELSE sec

\* Whether reEnterFullScreen awaits requestFullscreen().
ReEnterRequestsFullscreen(v, sec, fs) ==
    IF v = "A" THEN ~fs ELSE sec /\ ~fs

reEnterFullScreen ==
    /\ mounted
    /\ IF ReEnterRequestsFullscreen(variant, isSecurityEnabled, fullscreen)
       THEN /\ pendingStart + pendingReenter < MaxPending
            /\ pendingReenter' = pendingReenter + 1
            /\ returned' = "none"
       ELSE /\ returned' = "reenter:resolved"
            /\ UNCHANGED pendingReenter
    /\ defaultPrevented' = FALSE
    /\ HookUnchanged
    /\ UNCHANGED <<params, props, mounted, react, subscription, fullscreen,
                   pendingStart>>

(* ------------------------------- browser ------------------------------- *)
\* The fullscreenchange event that follows a change of the fullscreen element.
FullscreenChanged(h, fs) ==
    IF fs # fullscreen /\ "fullscreenchange" \in listeners
    THEN handleFullScreenChange(h, capturedViolations, fs)
    ELSE h

\* startExam's continuation after `await requestFullscreen()` resolved.
StartResolved(h) ==
    setViolations(h, 0)

ResolveStart ==
    /\ pendingStart > 0
    /\ pendingStart' = pendingStart - 1
    /\ fullscreen' = TRUE
    /\ Commit(StartResolved(FullscreenChanged(Hook, TRUE)))
    /\ returned' = "start:true"
    /\ defaultPrevented' = FALSE
    /\ UNCHANGED <<params, props, mounted, react, subscription, pendingReenter>>

\* A faulty catch block of startExam: it falls through to setViolations(0).
StartRejectedStarts(h) ==
    setViolations(h, 0)

\* startExam's catch block, alert(...) and return false: the hook after it.
StartRejected(h) ==
    h

RejectStart ==
    /\ pendingStart > 0
    /\ pendingStart' = pendingStart - 1
    /\ Commit(StartRejected(Hook))
    /\ returned' = "start:false"
    /\ defaultPrevented' = FALSE
    /\ UNCHANGED <<params, props, mounted, react, subscription, fullscreen,
                   pendingReenter>>

ResolveReenter ==
    /\ pendingReenter > 0
    /\ pendingReenter' = pendingReenter - 1
    /\ fullscreen' = TRUE
    /\ Commit(FullscreenChanged(Hook, TRUE))
    /\ returned' = "reenter:resolved"
    /\ defaultPrevented' = FALSE
    /\ UNCHANGED <<params, props, mounted, react, subscription, pendingStart>>

\* A faulty catch block of reEnterFullScreen: onFinishExam is not called.
ReenterRejectedSilently(h) ==
    << h, "reenter:resolved" >>

\* reEnterFullScreen's catch block: <<hook after it, how the promise settles>>.
ReenterRejected(h) ==
    << onFinishExam(h), "reenter:resolved" >>

RejectReenter ==
    /\ pendingReenter > 0
    /\ pendingReenter' = pendingReenter - 1
    /\ Commit(ReenterRejected(Hook)[1])
    /\ returned' = ReenterRejected(Hook)[2]
    /\ defaultPrevented' = FALSE
    /\ UNCHANGED <<params, props, mounted, react, subscription, fullscreen,
                   pendingStart>>

\* The user or the host page changes the fullscreen element; the browser
\* dispatches fullscreenchange.
FullScreenChange(fs) ==
    /\ fs # fullscreen
    /\ fullscreen' = fs
    /\ Commit(FullscreenChanged(Hook, fs))
    /\ Silent
    /\ UNCHANGED <<params, props, mounted, react, subscription, requests>>

VisibilityChange(hidden) ==
    /\ "visibilitychange" \in listeners
    /\ Commit(handleVisibilityChange(Hook, capturedViolations, hidden))
    /\ Silent
    /\ UNCHANGED <<params, props, mounted, react, subscription, fullscreen,
                   requests>>

Blur ==
    /\ "blur" \in listeners
    /\ Commit(handleBlur(Hook, capturedViolations))
    /\ Silent
    /\ UNCHANGED <<params, props, mounted, react, subscription, fullscreen,
                   requests>>

KeyDown(e) ==
    /\ "keydown" \in listeners
    /\ Commit(handleKeyDown(Hook, capturedViolations, e))
    /\ returned' = "none"
    /\ defaultPrevented' = KeyDownPrevented(e)
    /\ UNCHANGED <<params, props, mounted, react, subscription, fullscreen,
                   requests>>

\* A faulty suppression handler: it honours the latch as handleViolation does.
preventDefaultDebounced(h) ==
    << h, ~h.isHandlingViolation >>

\* The handler of contextmenu, dragstart, selectstart, copy, paste and cut:
\* <<hook after it, e.preventDefault() was called>>. The alert of the
\* clipboard handlers changes no state.
preventDefault(h) ==
    << h, TRUE >>

Suppressed(type) ==
    /\ type \in listeners
    /\ returned' = "none"
    /\ Commit(preventDefault(Hook)[1])
    /\ defaultPrevented' = preventDefault(Hook)[2]
    /\ UNCHANGED <<params, props, mounted, react, subscription, fullscreen,
                   requests>>

\* A tick of a live dev-tools interval, with the window gaps it reads.
DevToolsTick(iv, gapW, gapH) ==
    /\ iv \in intervals
    /\ Commit(checkDevTools(Hook, iv.captured, gapW, gapH))
    /\ Silent
    /\ UNCHANGED <<params, props, mounted, react, subscription, fullscreen,
                   requests>>

\* A faulty timer: its callback is dropped once the hook is unmounted.
ReleaseLatchWhileMounted ==
    /\ mounted
    /\ latchTimers > 0
    /\ latchTimers' = latchTimers - 1
    /\ isHandlingViolation' = FALSE
    /\ Silent
    /\ debounced' = FALSE
    /\ UNCHANGED <<params, props, mounted, react, subscription, violations,
                   callbacks, fullscreen, requests>>

\* The 500 ms timer of handleViolation fires.
ReleaseLatch ==
    /\ latchTimers > 0
    /\ latchTimers' = latchTimers - 1
    /\ isHandlingViolation' = FALSE
    /\ Silent
    /\ debounced' = FALSE
    /\ UNCHANGED <<params, props, mounted, react, subscription, violations,
                   callbacks, fullscreen, requests>>

(* ----------------------------- specification --------------------------- *)
Next ==
    \/ Render
    \/ \E sec \in BOOLEAN, final \in BOOLEAN : SetProps(sec, final)
    \/ RunEffect
    \/ Unmount
    \/ startExam
    \/ reEnterFullScreen
    \/ ResolveStart
    \/ RejectStart
    \/ ResolveReenter
    \/ RejectReenter
    \/ \E fs \in BOOLEAN : FullScreenChange(fs)
    \/ \E hidden \in BOOLEAN : VisibilityChange(hidden)
    \/ Blur
    \/ \E e \in KeyEvents : KeyDown(e)
    \/ \E type \in SuppressedTypes(variant) : Suppressed(type)
    \/ \E iv \in intervals, gapW \in GapValues, gapH \in GapValues :
           DevToolsTick(iv, gapW, gapH)
    \/ ReleaseLatch

Spec == Init /\ [][Next]_vars

\* The hook mounted with the largest maxViolations of the bounds, which has
\* the longest escalation.
LiveInit ==
    /\ Init
    /\ maxViolations = MaxMaxViolations

\* The specification with the scheduling the host guarantees: the callback of
\* a pending setTimeout runs.
FairSpec ==
    /\ LiveInit
    /\ [][Next]_vars
    /\ WF_vars(ReleaseLatch)

(* ------------------------------ properties ---------------------------- *)
\* A step that delivers a violation-triggering signal to the hook.
SignalStep ==
    \/ \E fs \in BOOLEAN : FullScreenChange(fs)
    \/ \E hidden \in BOOLEAN : VisibilityChange(hidden)
    \/ Blur
    \/ \E e \in KeyEvents : KeyDown(e)
    \/ \E iv \in intervals, gapW \in GapValues, gapH \in GapValues :
           DevToolsTick(iv, gapW, gapH)

\* A signal step in which handleViolation passed the latch guard.
CountedStep ==
    ~isHandlingViolation /\ isHandlingViolation' /\ SignalStep

\* React has nothing left to do: the latest state is rendered and the effect
\* of that render has run.
Settled ==
    mounted /\ rendered = violations /\ ~effectPending

EscalationPolicy ==
    IF violations' <= maxViolations
    THEN /\ warnings' = warnings + 1
         /\ finishCalls' = finishCalls
         /\ lastMessage' = IF violations' = maxViolations
                           THEN "FINAL_WARNING" ELSE "WARNING"
    ELSE /\ finishCalls' = finishCalls + 1
         /\ UNCHANGED <<warnings, lastMessage>>

\* C2: escalation order. startExam leaves the counter at 0, and every counted
\* violation raises the counter by one; with n the new count, n < maxViolations
\* gives a WARNING, n = maxViolations a FINAL_WARNING, n > maxViolations
\* onFinishExam and no onWarning.
C2_EscalationOrder ==
    [][ /\ (mounted /\ returned' \in {"start:true", "start:undefined"}) =>
              violations' = 0
        /\ CountedStep =>
              /\ violations' = violations + 1
              /\ EscalationPolicy ]_vars

\* C2 restricted to the counted violations that arrive when React has settled,
\* and with the policy alone for the others: this much of C2 holds.
C2_SettledEscalation ==
    [][ /\ (mounted /\ returned' \in {"start:true", "start:undefined"}) =>
              violations' = 0
        /\ CountedStep =>
              /\ Settled => violations' = violations + 1
              /\ EscalationPolicy ]_vars

\* C3: once the counter exceeds maxViolations, violation handling calls
\* neither onFinishExam again nor onWarning (stated for settled states only,
\* which the claim covers among others).
C3_FinishOnce ==
    [][ (Settled /\ violations > maxViolations /\ SignalStep) =>
            UNCHANGED callbacks ]_vars

\* C4: when React has settled, something is subscribed exactly when the
\* session is ACTIVE, security is enabled and final submission is off.
C4_SubscribedIffActive ==
    Settled =>
        ((listeners # {} \/ intervals # {}) <=>
            /\ 0 <= violations
            /\ violations <= maxViolations
            /\ isSecurityEnabled
            /\ ~isFinalSubmission)

\* C5: while isSecurityEnabled has been false at every render, nothing is
\* subscribed, no callback has been made and the counter is at most 0.
C5_SecurityDisabled ==
    ~securityWasEnabled =>
        /\ listeners = {}
        /\ intervals = {}
        /\ warnings = 0
        /\ finishCalls = 0
        /\ violations <= 0
        /\ pendingStart = 0
        /\ pendingReenter = 0

\* A started exam with security off since the mount.
C5_Witness ==
    /\ ~securityWasEnabled
    /\ Settled
    /\ violations = 0
    /\ returned = "reenter:resolved"

\* C6: once the effect of a render with isFinalSubmission has run, no listener
\* and no interval is left, and neither a signal nor the pending latch release
\* changes the counter or calls the host.
C6_FinalSubmissionTeardown ==
    /\ [](isFinalSubmission /\ ~effectPending => listeners = {} /\ intervals = {})
    /\ [][ (isFinalSubmission /\ ~effectPending /\ (SignalStep \/ ReleaseLatch)) =>
               UNCHANGED <<violations, callbacks>> ]_vars

\* Final submission began inside a cool-down window: the teardown is done and
\* the latch release is still pending.
C6_Witness ==
    /\ mounted
    /\ isFinalSubmission
    /\ ~effectPending
    /\ violations >= 1
    /\ isHandlingViolation
    /\ latchTimers = 1
    /\ listeners = {}

\* C7: startExam completing in a started session leaves the counter and the
\* callbacks made as they are.
C7_StartExamNoOp ==
    [][ (mounted /\ violations >= 0 /\ (startExam \/ ResolveStart)) =>
            UNCHANGED <<violations, callbacks>> ]_vars

\* C8: in the variants whose startExam requests fullscreen (A and C), an
\* unstarted session has no subscription and leaves UNSTARTED only for 0, and
\* only by startExam with security off or by the request resolving; a call with
\* security on waits for the request; a rejected request leaves the counter at
\* -1, subscribes nothing, calls no callback and returns false.
C8_StartExam ==
    /\ [](variant # "B" /\ violations = UNSTARTED =>
              listeners = {} /\ intervals = {})
    /\ [][ (variant # "B" /\ mounted /\ violations = UNSTARTED) =>
             /\ (violations' # UNSTARTED) =>
                    /\ violations' = 0
                    /\ returned' = "start:true"
                    /\ (startExam /\ ~isSecurityEnabled) \/ ResolveStart
             /\ (startExam /\ ~isSecurityEnabled) =>
                    violations' = 0 /\ UNCHANGED requests
             /\ (startExam /\ isSecurityEnabled) =>
                    violations' = UNSTARTED /\ pendingStart' = pendingStart + 1
             /\ ResolveStart => violations' = 0
             /\ RejectStart =>
                    /\ violations' = UNSTARTED
                    /\ returned' = "start:false"
                    /\ UNCHANGED <<callbacks, subscription, react>> ]_vars

\* A rejected start: the session is still unstarted.
C8_Witness ==
    /\ variant # "B"
    /\ returned = "start:false"
    /\ violations = UNSTARTED
    /\ listeners = {}
    /\ finishCalls = 0

\* C9: a rejected request of reEnterFullScreen calls onFinishExam once, the
\* promise of reEnterFullScreen resolves, and the counter, the latch and the
\* warnings are unchanged.
C9_ReenterRejected ==
    [][ RejectReenter =>
          /\ finishCalls' = finishCalls + 1
          /\ returned' = "reenter:resolved"
          /\ UNCHANGED <<violations, isHandlingViolation, latchTimers, warnings,
                         lastMessage, subscription>> ]_vars

\* onFinishExam was called once although no violation was ever counted.
C9_Witness ==
    /\ returned = "reenter:resolved"
    /\ finishCalls = 1
    /\ warnings = 0
    /\ violations = 0

\* C10: reEnterFullScreen called in fullscreen requests nothing, calls no
\* callback and changes no state of the session.
C10_ReenterNoOp ==
    [][ (fullscreen /\ reEnterFullScreen) =>
          /\ returned' = "reenter:resolved"
          /\ UNCHANGED <<requests, hook, subscription, react, fullscreen>> ]_vars

\* reEnterFullScreen completed in fullscreen during a started session; no
\* request of reEnterFullScreen can have been in flight, the one request the
\* bound allows being startExam's.
C10_Witness ==
    /\ fullscreen
    /\ returned = "reenter:resolved"
    /\ pendingStart = MaxPending
    /\ violations >= 1
    /\ isSecurityEnabled

\* The session is over: the counter passed maxViolations, or the host
\* unmounted the hook.
Over ==
    ~mounted \/ violations > maxViolations

\* A fullscreen request of startExam or reEnterFullScreen settles.
SettleStep ==
    ResolveStart \/ RejectStart \/ ResolveReenter \/ RejectReenter

\* C11: a fullscreen request that resolves or is rejected once the session is
\* TERMINATED or torn down changes neither the counter nor the subscriptions
\* and calls neither onFinishExam nor onWarning.
C11_StaleResolution ==
    [][ (Over /\ SettleStep) =>
            UNCHANGED <<violations, callbacks, listeners, intervals>> ]_vars

\* A step that delivers a suppression-only signal to its listener. The
\* listeners of these signals make the same call, so one registered type
\* stands for all of them.
SuppressedStep ==
    /\ listeners \cap SuppressedTypes(variant) # {}
    /\ Suppressed(CHOOSE type \in listeners \cap SuppressedTypes(variant) : TRUE)

C13_ExactIncrement ==
    [][ CountedStep => violations' = violations + 1 ]_vars

\* The monitoring-eligible condition at the latest render, for a counter value.
Eligible(count) ==
    /\ isSecurityEnabled
    /\ ~isFinalSubmission
    /\ 0 <= count
    /\ count <= maxViolations

\* C14: registration happens once on entering the monitoring-eligible
\* condition and teardown once on leaving it. When React has settled, the
\* listeners are registered if the condition holds and nothing is registered
\* if it does not or the hook is unmounted; and an effect that runs while the
\* condition has held since the registration (the registered handlers hold a
\* count below maxViolations, so that the counter can only have been 0, that
\* count or the next one, and the props are those of the registration) tears
\* nothing down and registers nothing again.
C14_RegisterOnce ==
    /\ [](Settled /\ Eligible(violations) => listeners = ListenerTypes(variant))
    /\ []((Settled /\ ~Eligible(violations)) \/ ~mounted =>
              listeners = {} /\ intervals = {})
    /\ [][ (/\ hasCleanup
            /\ Eligible(capturedViolations + 1)
            /\ RunEffect) => UNCHANGED subscription ]_vars

\* C15: in every state between two handler executions either every listener
\* of the variant is registered, with exactly one dev-tools interval in the
\* variant that has the check (B) and the ref naming it, or no listener and no
\* interval is registered.
C15_AtomicSubscription ==
    \/ /\ listeners = {}
       /\ intervals = {}
    \/ /\ listeners = ListenerTypes(variant)
       /\ IF variant = "B"
          THEN /\ Cardinality(intervals) = 1
               /\ \A iv \in intervals : iv.id = devToolsCheckInterval
          ELSE intervals = {}

\* The subscription after a re-subscription: the second interval is the only
\* live one.
C15_Witness ==
    /\ variant = "B"
    /\ listeners = ListenerTypes("B")
    /\ intervals = {[id |-> 2, captured |-> 1]}
    /\ devToolsCheckInterval = 2

\* C16: a blur delivered while the document is not in fullscreen changes
\* neither the counter nor the latch and its timers nor the callbacks made, and
\* does not reach handleViolation; a fullscreen exit leaves the document out
\* of fullscreen, so that the blur of the same departure is such a blur, and
\* the exit itself makes at most one callback.
C16_BlurIgnored ==
    [][ /\ (~fullscreen /\ Blur) => (UNCHANGED hook /\ ~debounced')
        /\ FullScreenChange(FALSE) =>
              /\ ~fullscreen'
              /\ warnings' + finishCalls' <= warnings + finishCalls + 1 ]_vars

\* The first violation was counted and its cool-down is over: the document is
\* out of fullscreen, the blur listener is registered by the effect of the new
\* count and the latch is clear, so only handleBlur's test keeps a blur from
\* being counted.
C16_Witness ==
    /\ ~fullscreen
    /\ "blur" \in listeners
    /\ Settled
    /\ violations = 1
    /\ capturedViolations = 1
    /\ warnings + finishCalls = 1
    /\ ~isHandlingViolation
    /\ latchTimers = 0
    /\ returned = "none"

\* A tick of a live interval that reads the gaps of the given sets.
TickWith(gapsW, gapsH) ==
    \E iv \in intervals, gapW \in gapsW, gapH \in gapsH :
        DevToolsTick(iv, gapW, gapH)

\* Gaps at most 160, and gaps above 160.
LowGaps == {g \in GapValues : g <= 160}
HighGaps == {g \in GapValues : g > 160}

\* C17: an interval exists only in the variant with the dev-tools check and
\* only together with the listeners, never after a teardown or an unmount; a
\* tick counts a violation exactly when a gap is above 160 and the latch is
\* clear, and then counts from the interval's closure and makes one callback;
\* a tick with both gaps at most 160 changes nothing of the hook. The steps
\* are stated by contraposition: a step that sets the latch or changes the
\* hook is no tick with both gaps at most 160, and a step that leaves a clear
\* latch clear is no tick with a gap above 160.
C17_DevToolsThreshold ==
    /\ [](intervals # {} => variant = "B" /\ mounted /\ listeners # {})
    /\ [][ /\ ~(UNCHANGED hook) => ~TickWith(LowGaps, LowGaps)
           /\ (~isHandlingViolation /\ ~isHandlingViolation'
                 /\ UNCHANGED <<subscription, react, fullscreen>>) =>
                   /\ ~TickWith(HighGaps, GapValues)
                   /\ ~TickWith(LowGaps, HighGaps)
           /\ (~isHandlingViolation /\ isHandlingViolation') =>
                 \A iv \in intervals, gapW \in GapValues, gapH \in GapValues :
                     DevToolsTick(iv, gapW, gapH) =>
                       /\ violations' = iv.captured + 1
                       /\ warnings' + finishCalls' = warnings + finishCalls + 1
                       /\ latchTimers' = latchTimers + 1 ]_vars

\* The dev-tools interval registered by the first effect is live and the first
\* violation is in its cool-down: the ticks of the interval are those the
\* claim is about, counted or not by their gaps and the latch.
C17_Witness ==
    /\ variant = "B"
    /\ intervals = {[id |-> 1, captured |-> 0]}
    /\ isHandlingViolation
    /\ violations = 1
    /\ warnings + finishCalls = 1
    /\ ~debounced

\* C18: the counter is never below -1; while it is -1 no listener and no
\* interval is registered, the latch is clear with no release pending and
\* onWarning was never called; a signal delivered then changes nothing of the
\* hook, and onFinishExam is called then by the rejection of a
\* reEnterFullScreen request only.
C18_NothingBeforeStart ==
    /\ [](violations >= -1)
    /\ [](violations = -1 =>
              /\ listeners = {}
              /\ intervals = {}
              /\ ~isHandlingViolation
              /\ latchTimers = 0
              /\ warnings = 0
              /\ lastMessage = "NONE")
    /\ [][ violations = -1 =>
              /\ SignalStep => UNCHANGED hook
              /\ finishCalls' # finishCalls => RejectReenter ]_vars

\* Before the start, with security on and the effect run: the document went
\* fullscreen and onFinishExam was called once, by a rejected request of
\* reEnterFullScreen, and not by a violation.
C18_Witness ==
    /\ violations = -1
    /\ mounted
    /\ isSecurityEnabled
    /\ ~isFinalSubmission
    /\ ~effectPending
    /\ fullscreen
    /\ finishCalls = 1
    /\ pendingStart = 0
    /\ pendingReenter = 0

\* C19: a set latch has its release timer pending, the latch is cleared by
\* that timer only, and under fair timers the latch is clear again and again,
\* so that it never stays set, whatever happens in between.
C19_LatchReleased ==
    /\ [](isHandlingViolation => latchTimers > 0)
    /\ [][ (isHandlingViolation /\ ~isHandlingViolation') => ReleaseLatch ]_vars
    /\ []<>(~isHandlingViolation)

\* A violation was counted, which set the latch, the hook was torn down, and
\* the latch is clear with no timer left.
C19_Witness ==
    /\ ~mounted
    /\ violations >= 1
    /\ warnings + finishCalls >= 1
    /\ ~isHandlingViolation
    /\ latchTimers = 0

\* C20: forced submission comes after exactly maxViolations warnings: when
\* violation handling calls onFinishExam, onWarning has been called
\* maxViolations times.
C20_ForcedSubmission ==
    [][ (CountedStep /\ finishCalls' > finishCalls) =>
            warnings = maxViolations ]_vars

====
